---- MODULE Spec2Model ----
(***************************************************************************)
(* A model of the custom_filter repository: the schema-driven filter       *)
(* library (lib/filter.ts: validation, Mongo and SQL compilation), its     *)
(* two builders and the in-memory UserRepository (repo/userRepository.ts). *)
(*                                                                         *)
(* A JavaScript value is a record [t |-> <kind>, v |-> <payload>]; an      *)
(* object's payload is the function from its own keys to their values, an  *)
(* array's payload the sequence of its elements.  A call that throws       *)
(* yields [kind |-> "throw", ...], a call that returns yields              *)
(* [kind |-> "return", value |-> ...].                                     *)
(***************************************************************************)
EXTENDS Integers, Sequences, FiniteSets, TLC

VARIABLES
    builder,  \* the registry of the repository's library: name -> builder
    users,    \* the collection of the repository
    schema,   \* the schema of the library of the last call
    op,       \* the operation of the last call, "none" between calls
    filter,   \* its filter
    ret,      \* its outcome: a return value or a thrown error
    trace,    \* the calls it made, in order
    record,   \* the record of the last call, when it was one of the evaluator
    asked,    \* the builder name of the last call, when it was a buildQuery
    log,      \* the registerBuilder calls made on the library, in order
    seen      \* what the compilers returned for the probes, and how often

vars == <<builder, users, schema, op, filter, ret, trace, record, asked, log, seen>>

\* what only the calls of their own kind change
aside == <<record, asked, log, seen>>

-----------------------------------------------------------------------------
(* JavaScript values *)

Undef == [t |-> "undefined"]
Null == [t |-> "null"]
Num(n) == [t |-> "number", v |-> n]
Str(s) == [t |-> "string", v |-> s]
Bool(b) == [t |-> "boolean", v |-> b]
Arr(s) == [t |-> "array", v |-> s]
Obj(f) == [t |-> "object", v |-> f]

EmptyObj == Obj(<<>>)

Return(v) == [kind |-> "return", value |-> v]
Throw(name, msg) == [kind |-> "throw", name |-> name, message |-> msg]

\* typeof v
typeOf(v) ==
    CASE v.t = "undefined" -> "undefined"
      [] v.t = "number" -> "number"
      [] v.t = "string" -> "string"
      [] v.t = "boolean" -> "boolean"
      [] OTHER -> "object"

\* Array.isArray(v)
isArray(v) == v.t = "array"

\* ToBoolean(v), as used by if (v), !v, v || w
truthy(v) ==
    CASE v.t = "undefined" -> FALSE
      [] v.t = "null" -> FALSE
      [] v.t = "number" -> v.v # 0
      [] v.t = "string" -> v.v # ""
      [] v.t = "boolean" -> v.v
      [] OTHER -> TRUE

\* v can stand right of the in operator, and its properties can be read
isObjectLike(v) == v.t \in {"object", "array"}

\* key in v, for an object-like v and a key that is no array index
hasKey(v, key) == v.t = "object" /\ key \in DOMAIN v.v

\* v[key] for a key that is no array index nor "length"
get(v, key) == IF hasKey(v, key) THEN v.v[key] ELSE Undef

\* a === b
strictEq(a, b) == a = b /\ a.t \notin {"object", "array"}

Digit == <<"0", "1", "2", "3", "4", "5", "6", "7", "8", "9">>

RECURSIVE natStr(_)
natStr(n) == IF n < 10 THEN Digit[n + 1] ELSE natStr(n \div 10) \o Digit[(n % 10) + 1]

\* Number.prototype.toString of an integer
numStr(n) == IF n < 0 THEN "-" \o natStr(-n) ELSE natStr(n)

RECURSIVE toStr(_)
RECURSIVE joinStr(_, _, _)
\* Array.prototype.join of the string forms: null and undefined give ""
joinStr(s, sep, i) ==
    IF i > Len(s) THEN ""
    ELSE (IF i > 1 THEN sep ELSE "")
         \o (IF s[i].t \in {"null", "undefined"} THEN "" ELSE toStr(s[i]))
         \o joinStr(s, sep, i + 1)

\* String(v) and `${v}`
toStr(v) ==
    CASE v.t = "undefined" -> "undefined"
      [] v.t = "null" -> "null"
      [] v.t = "number" -> numStr(v.v)
      [] v.t = "string" -> v.v
      [] v.t = "boolean" -> (IF v.v THEN "true" ELSE "false")
      [] v.t = "array" -> joinStr(v.v, ",", 1)
      [] OTHER -> "[object Object]"

\* s.includes(x) for an array of primitives
includes(s, x) == \E i \in 1..Len(s) : strictEq(s[i], x)

-----------------------------------------------------------------------------
(* Schemas *)

userSchema ==
    << [name |-> "id", type |-> "uuid", filterable |-> TRUE],
       [name |-> "name", type |-> "string", filterable |-> TRUE],
       [name |-> "age", type |-> "number", filterable |-> TRUE],
       [name |-> "role", type |-> "enum", filterable |-> TRUE,
        enumValues |-> <<"admin", "user", "manager">>],
       [name |-> "isActive", type |-> "boolean", filterable |-> TRUE],
       [name |-> "createdAt", type |-> "date", filterable |-> FALSE] >>

\* A second schema a library can be constructed with: a filterable date
\* field, declared allowedOperators, an enum without enumValues.
auditSchema ==
    << [name |-> "id", type |-> "uuid", filterable |-> TRUE],
       [name |-> "name", type |-> "string", filterable |-> FALSE],
       [name |-> "age", type |-> "number", filterable |-> TRUE,
        allowedOperators |-> <<"eq", "gt", "in", "contains", "is_null">>],
       [name |-> "role", type |-> "enum", filterable |-> TRUE],
       [name |-> "isActive", type |-> "boolean", filterable |-> TRUE,
        allowedOperators |-> <<"eq", "between">>],
       [name |-> "createdAt", type |-> "date", filterable |-> TRUE] >>

Schemas == {userSchema, auditSchema}

defaultOperators ==
    [string |-> <<"eq", "neq", "contains", "starts_with", "ends_with", "in",
                  "is_null", "is_not_null">>,
     number |-> <<"eq", "neq", "gt", "lt", "gte", "lte", "between", "in",
                  "is_null", "is_not_null">>,
     boolean |-> <<"eq", "neq", "is_null", "is_not_null">>,
     date |-> <<"eq", "neq", "gt", "lt", "gte", "lte", "between",
                "is_null", "is_not_null">>,
     enum |-> <<"eq", "neq", "in", "is_null", "is_not_null">>,
     uuid |-> <<"eq", "neq", "in", "is_null", "is_not_null">>]

\* this.schemaMap.get(key): the last descriptor of that name, or undefined
schemaMapHas(sch, key) ==
    key.t = "string" /\ \E i \in 1..Len(sch) : sch[i].name = key.v

schemaMapGet(sch, key) ==
    sch[CHOOSE i \in 1..Len(sch) :
            /\ sch[i].name = key.v
            /\ \A j \in (i + 1)..Len(sch) : sch[j].name # key.v]

\* schema.allowedOperators ?? (this.defaultOperators[schema.type] || [])
allowedOps(s) ==
    IF "allowedOperators" \in DOMAIN s THEN s.allowedOperators
    ELSE IF s.type \in DOMAIN defaultOperators THEN defaultOperators[s.type]
    ELSE <<>>

-----------------------------------------------------------------------------
(* Validation *)

Err(path, message) == [path |-> path, message |-> message]

\* Date.parse(s) is a number for the ISO 8601 dates, the only strings of
\* this model that have the shape of a date.
IsoDates == {"2023-01-01", "2021-06-15"}

dateParses(s) == s \in IsoDates

\* Strings of the model that match the UUID pattern of checkType
UuidShaped == {"123e4567-e89b-42d3-a456-426614174000"}

uuidTest(s) == s \in UuidShaped

checkType(value, type, path, s) ==
    CASE type = "string" ->
           IF typeOf(value) # "string" THEN <<Err(path, "must be a string")>> ELSE <<>>
      [] type = "number" ->
           IF typeOf(value) # "number" THEN <<Err(path, "must be a number")>> ELSE <<>>
      [] type = "boolean" ->
           IF typeOf(value) # "boolean" THEN <<Err(path, "must be a boolean")>> ELSE <<>>
      [] type = "date" ->
           IF ~dateParses(toStr(value)) THEN <<Err(path, "must be a valid date")>> ELSE <<>>
      [] type = "uuid" ->
           IF typeOf(value) # "string" \/ ~uuidTest(value.v)
           THEN <<Err(path, "must be a valid UUID")>> ELSE <<>>
      [] type = "enum" ->
           IF typeOf(value) # "string"
           THEN <<Err(path, "must be a valid enum value")>>
           ELSE IF "enumValues" \in DOMAIN s
                   /\ ~(\E i \in 1..Len(s.enumValues) : s.enumValues[i] = value.v)
           THEN <<Err(path, "must be one of: "
                            \o joinStr([i \in 1..Len(s.enumValues) |-> Str(s.enumValues[i])],
                                       ", ", 1))>>
           ELSE <<>>
      [] OTHER -> <<>>

RECURSIVE checkEach(_, _, _, _, _)
\* value.forEach((v, i) => errors.push(...this.checkType(v, type, `${path}.value[${i}]`, schema)))
checkEach(value, type, path, s, i) ==
    IF i > Len(value) THEN <<>>
    ELSE checkType(value[i], type, path \o ".value[" \o numStr(i - 1) \o "]", s)
         \o checkEach(value, type, path, s, i + 1)

\* validateValue that tests the value of is_null / is_not_null with
\* value != null: a null value passes
validateValueLooseNull(cond, type, path, s) ==
    LET operator == get(cond, "operator")
        value == get(cond, "value")
    IN  IF operator = Str("is_null") \/ operator = Str("is_not_null")
        THEN IF value # Undef /\ value # Null
             THEN <<Err(path, "Operator \"" \o toStr(operator) \o "\" does not take a value")>>
             ELSE <<>>
        ELSE IF operator = Str("between")
        THEN IF ~isArray(value) \/ Len(value.v) # 2
             THEN <<Err(path, "\"between\" operator requires exactly 2 values")>>
             ELSE checkEach(value.v, type, path, s, 1)
        ELSE IF operator = Str("in")
        THEN IF ~isArray(value)
             THEN <<Err(path, "\"in\" operator requires an array")>>
             ELSE checkEach(value.v, type, path, s, 1)
        ELSE IF value = Undef
        THEN <<Err(path, "Field requires a value")>>
        ELSE checkType(value, type, path \o ".value", s)

\* validateValue that checks the value of in as it checks a scalar: no test
\* that it is an array
validateValueScalarIn(cond, type, path, s) ==
    LET operator == get(cond, "operator")
        value == get(cond, "value")
    IN  IF operator = Str("is_null") \/ operator = Str("is_not_null")
        THEN IF value # Undef
             THEN <<Err(path, "Operator \"" \o toStr(operator) \o "\" does not take a value")>>
             ELSE <<>>
        ELSE IF operator = Str("between")
        THEN IF ~isArray(value) \/ Len(value.v) # 2
             THEN <<Err(path, "\"between\" operator requires exactly 2 values")>>
             ELSE checkEach(value.v, type, path, s, 1)
        ELSE IF value = Undef
        THEN <<Err(path, "Field requires a value")>>
        ELSE checkType(value, type, path \o ".value", s)

validateValue(cond, type, path, s) ==
    LET operator == get(cond, "operator")
        value == get(cond, "value")
    IN  IF operator = Str("is_null") \/ operator = Str("is_not_null")
        THEN IF value # Undef
             THEN <<Err(path, "Operator \"" \o toStr(operator) \o "\" does not take a value")>>
             ELSE <<>>
        ELSE IF operator = Str("between")
        THEN IF ~isArray(value) \/ Len(value.v) # 2
             THEN <<Err(path, "\"between\" operator requires exactly 2 values")>>
             ELSE checkEach(value.v, type, path, s, 1)
        ELSE IF operator = Str("in")
        THEN IF ~isArray(value)
             THEN <<Err(path, "\"in\" operator requires an array")>>
             ELSE checkEach(value.v, type, path, s, 1)
        ELSE IF value = Undef
        THEN <<Err(path, "Field requires a value")>>
        ELSE checkType(value, type, path \o ".value", s)

\* validateCondition without the return that follows the "is not filterable"
\* error
validateConditionNoStop(sch, cond, path) ==
    LET field == get(cond, "field")
        operator == get(cond, "operator")
    IN  IF ~schemaMapHas(sch, field)
        THEN <<Err(path, "Field \"" \o toStr(field) \o "\" is not allowed for filtering")>>
        ELSE LET s == schemaMapGet(sch, field)
             IN  (IF ~s.filterable
                  THEN <<Err(path, "Field \"" \o toStr(field) \o "\" is not filterable")>>
                  ELSE <<>>)
                 \o (IF ~(\E i \in 1..Len(allowedOps(s)) : Str(allowedOps(s)[i]) = operator)
                     THEN <<Err(path, "Operator \"" \o toStr(operator)
                                      \o "\" is not allowed for field \""
                                      \o toStr(field) \o "\"")>>
                     ELSE <<>>)
                 \o validateValue(cond, s.type, path, s)

\* validateCondition with a return after the "Operator ... is not allowed"
\* error
validateConditionStopsAtOperator(sch, cond, path) ==
    LET field == get(cond, "field")
        operator == get(cond, "operator")
    IN  IF ~schemaMapHas(sch, field)
        THEN <<Err(path, "Field \"" \o toStr(field) \o "\" is not allowed for filtering")>>
        ELSE LET s == schemaMapGet(sch, field)
             IN  IF ~s.filterable
                 THEN <<Err(path, "Field \"" \o toStr(field) \o "\" is not filterable")>>
                 ELSE IF ~(\E i \in 1..Len(allowedOps(s)) : Str(allowedOps(s)[i]) = operator)
                 THEN <<Err(path, "Operator \"" \o toStr(operator)
                                  \o "\" is not allowed for field \""
                                  \o toStr(field) \o "\"")>>
                 ELSE validateValue(cond, s.type, path, s)

validateCondition(sch, cond, path) ==
    LET field == get(cond, "field")
        operator == get(cond, "operator")
    IN  IF ~schemaMapHas(sch, field)
        THEN <<Err(path, "Field \"" \o toStr(field) \o "\" is not allowed for filtering")>>
        ELSE LET s == schemaMapGet(sch, field)
             IN  IF ~s.filterable
                 THEN <<Err(path, "Field \"" \o toStr(field) \o "\" is not filterable")>>
                 ELSE (IF ~(\E i \in 1..Len(allowedOps(s)) : Str(allowedOps(s)[i]) = operator)
                       THEN <<Err(path, "Operator \"" \o toStr(operator)
                                        \o "\" is not allowed for field \""
                                        \o toStr(field) \o "\"")>>
                       ELSE <<>>)
                      \o validateValue(cond, s.type, path, s)

RECURSIVE validateNode(_, _, _)
RECURSIVE validateEach(_, _, _, _, _, _)
RECURSIVE validateGroup(_, _, _)
RECURSIVE validateEachFromOne(_, _, _, _, _, _)

\* "field" in node throws a TypeError when node is not an object
validateNode(sch, node, path) ==
    IF ~isObjectLike(node)
    THEN Throw("TypeError", "Cannot use 'in' operator to search for 'field' in "
                            \o toStr(node))
    ELSE IF hasKey(node, "field")
    THEN Return(validateCondition(sch, node, path))
    ELSE validateGroup(sch, node, path)

\* validateEach with the children numbered from 1 in the paths
validateEachFromOne(sch, list, path, key, i, errors) ==
    IF i > Len(list) THEN Return(errors)
    ELSE LET r == validateNode(sch, list[i],
                               path \o "." \o key \o "[" \o numStr(i) \o "]")
         IN  IF r.kind = "throw" THEN r
             ELSE validateEachFromOne(sch, list, path, key, i + 1, errors \o r.value)

\* list.forEach((c, i) => errors.push(...this.validateNode(c, `${path}.${key}[${i}]`)))
\* started with the errors pushed so far; a throw of the callback ends the loop
validateEach(sch, list, path, key, i, errors) ==
    IF i > Len(list) THEN Return(errors)
    ELSE LET r == validateNode(sch, list[i],
                               path \o "." \o key \o "[" \o numStr(i - 1) \o "]")
         IN  IF r.kind = "throw" THEN r
             ELSE validateEach(sch, list, path, key, i + 1, errors \o r.value)

\* validateGroup that returns after the error of an and that is no array
validateGroupStopsAtNonArray(sch, group, path) ==
    LET and == get(group, "and")
        or == get(group, "or")
    IN  IF and # Undef /\ ~isArray(and)
        THEN Return(<<Err(path, "\"and\" must be an array")>>)
        ELSE LET afterAnd == IF and # Undef
                             THEN validateEach(sch, and.v, path, "and", 1, <<>>)
                             ELSE Return(<<>>)
             IN  IF afterAnd.kind = "throw" THEN afterAnd
                 ELSE IF or # Undef
                 THEN IF ~isArray(or)
                      THEN Return(afterAnd.value \o <<Err(path, "\"or\" must be an array")>>)
                      ELSE validateEach(sch, or.v, path, "or", 1, afterAnd.value)
                 ELSE afterAnd

validateGroup(sch, group, path) ==
    LET and == get(group, "and")
        or == get(group, "or")
        afterAnd ==
            IF and # Undef
            THEN IF ~isArray(and)
                 THEN Return(<<Err(path, "\"and\" must be an array")>>)
                 ELSE validateEach(sch, and.v, path, "and", 1, <<>>)
            ELSE Return(<<>>)
    IN  IF afterAnd.kind = "throw" THEN afterAnd
        ELSE IF or # Undef
        THEN IF ~isArray(or)
             THEN Return(afterAnd.value \o <<Err(path, "\"or\" must be an array")>>)
             ELSE validateEach(sch, or.v, path, "or", 1, afterAnd.value)
        ELSE afterAnd

validate(sch, f) ==
    IF ~truthy(f) THEN Return(<<>>) ELSE validateNode(sch, f, "<root>")

-----------------------------------------------------------------------------
(* Mongo compiler *)

\* The characters of the strings whose characters the program reads
\* (value[0] of a string, the source of a RegExp, the subject of a test).
Chars ==
    [a |-> <<"a">>, admin |-> <<"a", "d", "m", "i", "n">>,
     Alice |-> <<"A", "l", "i", "c", "e">>, Bob |-> <<"B", "o", "b">>,
     Charlie |-> <<"C", "h", "a", "r", "l", "i", "e">>]
    @@ ("2023-01-01" :> <<"2", "0", "2", "3", "-", "0", "1", "-", "0", "1">>)

\* the characters of a string of Chars, of "^" + such a string, of such a
\* string + "$"
charsOf(s) ==
    IF s \in DOMAIN Chars THEN Chars[s]
    ELSE IF \E b \in DOMAIN Chars : s = "^" \o b
    THEN <<"^">> \o Chars[CHOOSE b \in DOMAIN Chars : s = "^" \o b]
    ELSE Chars[CHOOSE b \in DOMAIN Chars : s = b \o "$"] \o <<"$">>

\* value[i] (i from 0): an element, a character, or undefined; reading a
\* property of null or undefined throws a TypeError
canIndex(value) == value.t \notin {"undefined", "null"}

index(value, i) ==
    CASE value.t = "array" -> IF i < Len(value.v) THEN value.v[i + 1] ELSE Undef
      [] value.t = "string" ->
           IF i < Len(charsOf(value.v)) THEN Str(charsOf(value.v)[i + 1]) ELSE Undef
      [] OTHER -> Undef

conditionToMongo(cond) ==
    LET field == toStr(get(cond, "field"))
        operator == get(cond, "operator")
        value == get(cond, "value")
        opObj(o) == Return(Obj(field :> Obj(o)))
    IN  CASE operator = Str("eq") -> Return(Obj(field :> value))
          [] operator = Str("neq") -> opObj("$ne" :> value)
          [] operator = Str("gt") -> opObj("$gt" :> value)
          [] operator = Str("lt") -> opObj("$lt" :> value)
          [] operator = Str("gte") -> opObj("$gte" :> value)
          [] operator = Str("lte") -> opObj("$lte" :> value)
          [] operator = Str("in") -> opObj("$in" :> value)
          [] operator = Str("between") ->
               IF ~canIndex(value)
               THEN Throw("TypeError", "Cannot read properties of " \o toStr(value))
               ELSE opObj(("$gte" :> index(value, 0)) @@ ("$lte" :> index(value, 1)))
          [] operator = Str("contains") ->
               opObj(("$regex" :> value) @@ ("$options" :> Str("i")))
          [] operator = Str("starts_with") ->
               opObj(("$regex" :> Str("^" \o toStr(value))) @@ ("$options" :> Str("i")))
          [] operator = Str("ends_with") ->
               opObj(("$regex" :> Str(toStr(value) \o "$")) @@ ("$options" :> Str("i")))
          [] operator = Str("is_null") -> Return(Obj(field :> Null))
          [] operator = Str("is_not_null") -> opObj("$ne" :> Null)
          [] OTHER -> Throw("Error", "Unsupported operator: " \o toStr(operator))

RECURSIVE groupToMongo(_)
RECURSIVE mapToMongo(_, _, _)

\* list.map((c) => "field" in c ? this.conditionToMongo(c) : this.groupToMongo(c))
mapToMongo(list, i, out) ==
    IF i > Len(list) THEN Return(Arr(out))
    ELSE LET c == list[i]
             r == IF ~isObjectLike(c)
                  THEN Throw("TypeError",
                             "Cannot use 'in' operator to search for 'field' in " \o toStr(c))
                  ELSE IF hasKey(c, "field") THEN conditionToMongo(c)
                  ELSE groupToMongo(c)
         IN  IF r.kind = "throw" THEN r ELSE mapToMongo(list, i + 1, Append(out, r.value))

groupToMongo(group) ==
    LET and == get(group, "and")
        or == get(group, "or")
        notFn(k) == Throw("TypeError", "group." \o k \o ".map is not a function")
        rAnd == IF ~truthy(and) THEN Return(Undef)
                ELSE IF ~isArray(and) THEN notFn("and")
                ELSE mapToMongo(and.v, 1, <<>>)
        rOr == IF ~truthy(or) THEN Return(Undef)
               ELSE IF ~isArray(or) THEN notFn("or")
               ELSE mapToMongo(or.v, 1, <<>>)
    IN  IF rAnd.kind = "throw" THEN rAnd
        ELSE IF rOr.kind = "throw" THEN rOr
        ELSE Return(Obj((IF truthy(and) THEN "$and" :> rAnd.value ELSE <<>>)
                        @@ (IF truthy(or) THEN "$or" :> rOr.value ELSE <<>>)))

\* toMongoQuery without its first line, if (!filter) return {}
toMongoQueryNoAbsent(f) ==
    IF ~isObjectLike(f)
    THEN Throw("TypeError", "Cannot use 'in' operator to search for 'field' in " \o toStr(f))
    ELSE IF hasKey(f, "field") THEN conditionToMongo(f)
    ELSE groupToMongo(f)

toMongoQuery(f) ==
    IF ~truthy(f) THEN Return(EmptyObj)
    ELSE IF ~isObjectLike(f)
    THEN Throw("TypeError", "Cannot use 'in' operator to search for 'field' in " \o toStr(f))
    ELSE IF hasKey(f, "field") THEN conditionToMongo(f)
    ELSE groupToMongo(f)

-----------------------------------------------------------------------------
(* SQL compiler.  The sql string is kept as the sequence of the pieces it  *)
(* is concatenated from, every placeholder "?" being a piece of its own;   *)
(* sqlText gives the string.                                               *)

Sql(sql, params) == [sql |-> sql, params |-> params]

RECURSIVE sqlText(_)
sqlText(pieces) ==
    IF pieces = <<>> THEN "" ELSE Head(pieces) \o sqlText(Tail(pieces))

RECURSIVE joinPiecesTrailing(_, _, _)
\* join that writes sep after every element, the last one too
joinPiecesTrailing(list, sep, i) ==
    IF i > Len(list) THEN <<>>
    ELSE list[i] \o <<sep>> \o joinPiecesTrailing(list, sep, i + 1)

RECURSIVE joinPieces(_, _, _)
\* list.join(sep), each element of list being a sequence of pieces
joinPieces(list, sep, i) ==
    IF i > Len(list) THEN <<>>
    ELSE (IF i > 1 THEN <<sep>> ELSE <<>>) \o list[i] \o joinPieces(list, sep, i + 1)

\* ...flatMap((s) => s.params): an array is spread, anything else kept whole
RECURSIVE flatParams(_, _)
flatParams(sub, i) ==
    IF i > Len(sub) THEN <<>>
    ELSE (IF isArray(sub[i].params) THEN sub[i].params.v ELSE <<sub[i].params>>)
         \o flatParams(sub, i + 1)

conditionToSql(cond) ==
    LET field == toStr(get(cond, "field"))
        operator == get(cond, "operator")
        value == get(cond, "value")
        one(o) == Return(Sql(<<field, o, "?">>, Arr(<<value>>)))
        like(v) == Return(Sql(<<field, " LIKE ", "?">>, Arr(<<Str(v)>>)))
    IN  CASE operator = Str("eq") -> one(" = ")
          [] operator = Str("neq") -> one(" <> ")
          [] operator = Str("gt") -> one(" > ")
          [] operator = Str("lt") -> one(" < ")
          [] operator = Str("gte") -> one(" >= ")
          [] operator = Str("lte") -> one(" <= ")
          [] operator = Str("in") ->
               IF ~isArray(value)
               THEN Throw("TypeError", "value.map is not a function")
               ELSE Return(Sql(<<field, " IN (">>
                               \o joinPieces([i \in 1..Len(value.v) |-> <<"?">>], ", ", 1)
                               \o <<")">>,
                               value))
          [] operator = Str("between") ->
               Return(Sql(<<field, " BETWEEN ", "?", " AND ", "?">>, value))
          [] operator = Str("contains") -> like("%" \o toStr(value) \o "%")
          [] operator = Str("starts_with") -> like(toStr(value) \o "%")
          [] operator = Str("ends_with") -> like("%" \o toStr(value))
          [] operator = Str("is_null") -> Return(Sql(<<field, " IS NULL">>, Arr(<<>>)))
          [] operator = Str("is_not_null") ->
               Return(Sql(<<field, " IS NOT NULL">>, Arr(<<>>)))
          [] OTHER -> Throw("Error", "Unsupported operator: " \o toStr(operator))

RECURSIVE groupToSql(_)
RECURSIVE mapToSql(_, _, _)

\* list.map((c) => "field" in c ? this.conditionToSql(c) : this.groupToSql(c))
mapToSql(list, i, out) ==
    IF i > Len(list) THEN Return(out)
    ELSE LET c == list[i]
             r == IF ~isObjectLike(c)
                  THEN Throw("TypeError",
                             "Cannot use 'in' operator to search for 'field' in " \o toStr(c))
                  ELSE IF hasKey(c, "field") THEN conditionToSql(c)
                  ELSE groupToSql(c)
         IN  IF r.kind = "throw" THEN r ELSE mapToSql(list, i + 1, Append(out, r.value))

\* groupClause with the params of the children taken last child first
groupClauseLastFirst(sub, sep) ==
    Sql(joinPieces([i \in 1..Len(sub) |-> sub[i].sql], sep, 1),
        flatParams([i \in 1..Len(sub) |-> sub[Len(sub) + 1 - i]], 1))

\* clauses.push(sub.map((s) => s.sql).join(sep)); params.push(...sub.flatMap(...))
groupClause(sub, sep) ==
    Sql(joinPieces([i \in 1..Len(sub) |-> sub[i].sql], sep, 1), flatParams(sub, 1))

groupToSql(group) ==
    LET and == get(group, "and")
        or == get(group, "or")
        notFn(k) == Throw("TypeError", "group." \o k \o ".map is not a function")
        rAnd == IF ~truthy(and) THEN Return(<<>>)
                ELSE IF ~isArray(and) THEN notFn("and")
                ELSE mapToSql(and.v, 1, <<>>)
        rOr == IF ~truthy(or) THEN Return(<<>>)
               ELSE IF ~isArray(or) THEN notFn("or")
               ELSE mapToSql(or.v, 1, <<>>)
    IN  IF rAnd.kind = "throw" THEN rAnd
        ELSE IF rOr.kind = "throw" THEN rOr
        ELSE LET cAnd == groupClause(rAnd.value, " AND ")
                 cOr == groupClause(rOr.value, " OR ")
                 clauses == (IF truthy(and) THEN <<cAnd.sql>> ELSE <<>>)
                            \o (IF truthy(or) THEN <<cOr.sql>> ELSE <<>>)
                 params == (IF truthy(and) THEN cAnd.params ELSE <<>>)
                           \o (IF truthy(or) THEN cOr.params ELSE <<>>)
             IN  Return(Sql(<<"(">> \o joinPieces(clauses, " AND ", 1) \o <<")">>,
                            Arr(params)))

\* toSqlWhere with the params kept in an array of the library that is
\* never emptied: those of the earlier compilation come first
toSqlWhereSharedParams(f) ==
    LET r == IF ~truthy(f) THEN Return(Sql(<<"1=1">>, Arr(<<>>)))
             ELSE IF ~isObjectLike(f)
             THEN Throw("TypeError",
                        "Cannot use 'in' operator to search for 'field' in " \o toStr(f))
             ELSE IF hasKey(f, "field") THEN conditionToSql(f)
             ELSE groupToSql(f)
        key == <<"toSqlWhere", f>>
    IN  IF r.kind = "return" /\ key \in DOMAIN seen
        THEN Return(Sql(r.value.sql,
                        Arr(seen[key].first.value.params.v \o r.value.params.v)))
        ELSE r

toSqlWhere(f) ==
    IF ~truthy(f) THEN Return(Sql(<<"1=1">>, Arr(<<>>)))
    ELSE IF ~isObjectLike(f)
    THEN Throw("TypeError", "Cannot use 'in' operator to search for 'field' in " \o toStr(f))
    ELSE IF hasKey(f, "field") THEN conditionToSql(f)
    ELSE groupToSql(f)

-----------------------------------------------------------------------------
(* Builders and the registry of a library *)

\* MongoBuilder.build, SqlBuilder.build
build(b, f) == IF b = "MongoBuilder" THEN toMongoQuery(f) ELSE toSqlWhere(f)

\* this.builder.set(name, builder)
registerBuilder(reg, name, b) ==
    [k \in DOMAIN reg \cup {name} |-> IF k = name THEN b ELSE reg[k]]

\* buildQuery that falls back on the Mongo compiler for a name that is not
\* registered
buildQueryDefaultsToMongo(reg, name, f) ==
    IF name \notin DOMAIN reg THEN toMongoQuery(f) ELSE build(reg[name], f)

buildQuery(reg, name, f) ==
    IF name \notin DOMAIN reg
    THEN Throw("Error", "Query builder \"" \o name \o "\" is not registered")
    ELSE build(reg[name], f)

-----------------------------------------------------------------------------
(* The evaluator of UserRepository *)

Date(iso) == [t |-> "date", v |-> iso]

initialUsers ==
    << Obj([id |-> Str("1"), name |-> Str("Alice"), age |-> Num(35),
            role |-> Str("admin"), isActive |-> Bool(TRUE),
            createdAt |-> Date("2021-01-01")]),
       Obj([id |-> Str("2"), name |-> Str("Bob"), age |-> Num(28),
            role |-> Str("user"), isActive |-> Bool(FALSE),
            createdAt |-> Date("2022-01-01")]),
       Obj([id |-> Str("3"), name |-> Str("Charlie"), age |-> Num(40),
            role |-> Str("manager"), isActive |-> Bool(TRUE),
            createdAt |-> Date("2023-01-01")]) >>

LowerOf == [A |-> "a", B |-> "b", C |-> "c"]

lower(c) == IF c \in DOMAIN LowerOf THEN LowerOf[c] ELSE c

\* new RegExp(source, flags).test(subject) for a source made of literal
\* characters with an optional leading ^ and trailing $
regExpTest(source, flags, subject) ==
    LET src == charsOf(source)
        sub == charsOf(subject)
        atStart == Len(src) > 0 /\ src[1] = "^"
        atEnd == Len(src) > 0 /\ src[Len(src)] = "$"
        lo == IF atStart THEN 2 ELSE 1
        hi == IF atEnd THEN Len(src) - 1 ELSE Len(src)
        body == SubSeq(src, lo, hi)
        fold(c) == IF flags = "i" THEN lower(c) ELSE c
        matchAt(k) ==
            /\ k + Len(body) <= Len(sub)
            /\ \A j \in 1..Len(body) : fold(sub[k + j]) = fold(body[j])
            /\ atStart => k = 0
            /\ atEnd => k + Len(body) = Len(sub)
    IN  \E k \in 0..Len(sub) : matchAt(k)

\* relational with $lte compared as $lt
relationalLteStrict(rel, value, other) ==
    IF value.t = "number" /\ other.t = "number"
    THEN CASE rel = "$gt" -> value.v > other.v
           [] rel = "$lt" -> value.v < other.v
           [] rel = "$gte" -> value.v >= other.v
           [] rel = "$lte" -> value.v < other.v
    ELSE FALSE

\* value > other and the like.  Both operands are numbers whenever the
\* query was compiled from a filter that validates against userSchema,
\* or the record lacks the field (undefined compares false).
relational(rel, value, other) ==
    IF value.t = "number" /\ other.t = "number"
    THEN CASE rel = "$gt" -> value.v > other.v
           [] rel = "$lt" -> value.v < other.v
           [] rel = "$gte" -> value.v >= other.v
           [] rel = "$lte" -> value.v <= other.v
    ELSE FALSE

\* one round of for (const op in condition) { switch (op) ... }: FALSE when
\* the round returns false
opHolds(condition, o, value) ==
    CASE o = "$ne" -> ~strictEq(value, condition.v[o])
      [] o \in {"$gt", "$lt", "$gte", "$lte"} -> relational(o, value, condition.v[o])
      [] o = "$in" -> includes(condition.v[o].v, value)
      [] o = "$regex" ->
           regExpTest(toStr(condition.v[o]),
                      IF truthy(get(condition, "$options"))
                      THEN toStr(get(condition, "$options")) ELSE "",
                      toStr(value))
      [] OTHER -> FALSE

\* the keys for...in visits: those of an object, the indices of an array,
\* none of null
forInKeys(condition) ==
    CASE condition.t = "object" -> DOMAIN condition.v
      [] condition.t = "array" -> {numStr(i - 1) : i \in 1..Len(condition.v)}
      [] OTHER -> {}

\* one round of for (const field of Object.keys(query))
fieldHolds(user, query, field) ==
    LET condition == query.v[field]
        value == get(user, field)
    IN  IF typeOf(condition) # "object" \/ condition.t = "date"
        THEN strictEq(value, condition)
        ELSE \A o \in forInKeys(condition) :
                condition.t = "object" /\ opHolds(condition, o, value)

RECURSIVE matchesQuery(_, _)
\* query is an object a compiler returned, or an element of its $and / $or
matchesQuery(user, query) ==
    IF ~truthy(query) \/ DOMAIN query.v = {} THEN TRUE
    ELSE IF truthy(get(query, "$and"))
    THEN \A i \in 1..Len(query.v["$and"].v) : matchesQuery(user, query.v["$and"].v[i])
    ELSE IF truthy(get(query, "$or"))
    THEN \E i \in 1..Len(query.v["$or"].v) : matchesQuery(user, query.v["$or"].v[i])
    ELSE \A field \in DOMAIN query.v : fieldHolds(user, query, field)

\* users.filter(pred)
RECURSIVE filterSeq(_, _, _)
filterSeq(us, query, i) ==
    IF i > Len(us) THEN <<>>
    ELSE (IF matchesQuery(us[i], query) THEN <<us[i]>> ELSE <<>>)
         \o filterSeq(us, query, i + 1)

-----------------------------------------------------------------------------
(* UserRepository.  A call sets ret to its outcome and trace to the calls  *)
(* it made, in order.                                                      *)

\* throw new Error("Validation failed: " + JSON.stringify(errors)): the
\* message is the prefix followed by the JSON text of errors
ValidationFailed(errors) ==
    [kind |-> "throw", name |-> "Error", message |-> "Validation failed: ",
     json |-> errors]

\* filterUsers without the throw on a non-empty list of errors
filterUsersNoThrow(f) ==
    \E errors \in {validate(userSchema, f)} :
       IF errors.kind = "throw"
       THEN ret' = errors /\ trace' = <<"validate">>
       ELSE \E query \in {buildQuery(builder, "mongo", f)} :
               IF query.kind = "throw"
               THEN ret' = query /\ trace' = <<"validate", "buildQuery">>
               ELSE /\ ret' = Return(Arr(filterSeq(users, query.value, 1)))
                    /\ trace' = <<"validate", "buildQuery">>
                                \o [i \in 1..Len(users) |-> "matchesQuery"]

\* filterUsers(filter), as the step from the state before the call to the
\* state after it
filterUsers(f) ==
    \E errors \in {validate(userSchema, f)} :
       IF errors.kind = "throw"
       THEN ret' = errors /\ trace' = <<"validate">>
       ELSE IF Len(errors.value) > 0
       THEN ret' = ValidationFailed(errors.value) /\ trace' = <<"validate">>
       ELSE \E query \in {buildQuery(builder, "mongo", f)} :
               IF query.kind = "throw"
               THEN ret' = query /\ trace' = <<"validate", "buildQuery">>
               ELSE /\ ret' = Return(Arr(filterSeq(users, query.value, 1)))
                    /\ trace' = <<"validate", "buildQuery">>
                                \o [i \in 1..Len(users) |-> "matchesQuery"]

\* getSqlWhere(filter), likewise
getSqlWhere(f) ==
    \E errors \in {validate(userSchema, f)} :
       IF errors.kind = "throw"
       THEN ret' = errors /\ trace' = <<"validate">>
       ELSE IF Len(errors.value) > 0
       THEN ret' = ValidationFailed(errors.value) /\ trace' = <<"validate">>
       ELSE /\ ret' = buildQuery(builder, "sql", f)
            /\ trace' = <<"validate", "buildQuery">>

-----------------------------------------------------------------------------
(* The inputs of the model *)

\* the longest and / or array of the generated groups
MaxLen == 2

Cond(field, operator, value) ==
    Obj(IF value = Undef
        THEN [field |-> field, operator |-> operator]
        ELSE [field |-> field, operator |-> operator, value |-> value])

FieldNames == {"name", "age", "role", "isActive", "createdAt", "password"}

Operators ==
    {"eq", "neq", "gt", "lt", "gte", "lte", "in", "between", "contains",
     "starts_with", "ends_with", "is_null", "is_not_null"}

Values ==
    {Undef, Null, Num(30), Str("admin"), Str("a"), Str("2023-01-01"), Bool(TRUE),
     Arr(<<>>), Arr(<<Num(30)>>), Arr(<<Num(28), Num(35)>>),
     Arr(<<Num(20), Str("a")>>), Arr(<<Num(1), Num(2), Num(3)>>),
     Arr(<<Str("admin"), Str("manager")>>), Arr(<<Str("2023-01-01")>>),
     Arr(<<Str("2021-06-15"), Str("2023-01-01")>>)}

\* every field with every operator (and one that is none) and every value
Conditions ==
    {Cond(Str(f), Str(o), v) : f \in FieldNames, o \in Operators \cup {"unknown"},
                               v \in Values}
    \cup {Cond(Str("id"), Str("eq"), Str("123e4567-e89b-42d3-a456-426614174000")),
          Cond(Str("id"), Str("eq"), Str("1")),
          Cond(Str("id"), Str("in"), Arr(<<Str("123e4567-e89b-42d3-a456-426614174000")>>)),
          Cond(Null, Str("eq"), Num(30)),
          Cond(Str("age"), Num(30), Num(30)),
          Obj([field |-> Str("age")])}

IsActiveTrue == Cond(Str("isActive"), Str("eq"), Bool(TRUE))
AgeGt30 == Cond(Str("age"), Str("gt"), Num(30))
AgeBetween == Cond(Str("age"), Str("between"), Arr(<<Num(28), Num(35)>>))
RoleIn == Cond(Str("role"), Str("in"), Arr(<<Str("admin"), Str("manager")>>))
NameContains == Cond(Str("name"), Str("contains"), Str("a"))
NameIsNull == Cond(Str("name"), Str("is_null"), Undef)
AgeLte28 == Cond(Str("age"), Str("lte"), Num(28))
RoleNeqAdmin == Cond(Str("role"), Str("neq"), Str("admin"))

\* the sequences over S of length 0..n
SeqsUpTo(S, n) == UNION {[1..k -> S] : k \in 0..n}

\* the groups over S: the empty one, those with one key (an array over S of
\* length 0..MaxLen, or one of the values of NonArrays) and those with both
\* keys (arrays of length 0..MaxLen - 1)
GroupsOver(S, NonArrays) ==
    LET side(n) == NonArrays \cup {Arr(l) : l \in SeqsUpTo(S, n)}
    IN  {EmptyObj}
        \cup {Obj("and" :> a) : a \in side(MaxLen)}
        \cup {Obj("or" :> o) : o \in side(MaxLen)}
        \cup {Obj("and" :> a @@ "or" :> o) : a \in side(MaxLen - 1),
                                            o \in side(MaxLen - 1)}

\* groups of conditions that validate against userSchema
Groups1 == GroupsOver({IsActiveTrue, AgeGt30, AgeBetween, RoleIn}, {})

Both == Obj([and |-> Arr(<<IsActiveTrue>>), or |-> Arr(<<AgeLte28, RoleNeqAdmin>>)])
AnyOf == Obj([or |-> Arr(<<AgeLte28, RoleNeqAdmin>>)])
Named == Obj([and |-> Arr(<<NameContains, NameIsNull>>)])

\* groups of groups
Groups2 == GroupsOver({AgeGt30, Both, AnyOf, Named, EmptyObj}, {})

\* malformed groups: and / or that is no array, entries that are no objects
\* or conditions that do not validate
Malformed ==
    GroupsOver({Null, Num(5), Cond(Str("password"), Str("eq"), Str("a")), AgeGt30},
               {Null, Num(5), Str("a"), Obj([field |-> Str("age")])})

Roots == {Undef, Null, Num(0), Num(5), Str(""), Str("a"), Bool(FALSE), Bool(TRUE),
          Arr(<<>>), Arr(<<AgeGt30>>)}

\* nested groups with conditions that do not validate
Faulty ==
    LET ageIn == Cond(Str("age"), Str("in"), Arr(<<Num(20), Str("a")>>))
        ageBetween == Cond(Str("age"), Str("between"), Arr(<<Str("a"), Num(35)>>))
        password == Cond(Str("password"), Str("eq"), Str("a"))
        roleEq == Cond(Str("role"), Str("eq"), Str("a"))
        nameNull == Cond(Str("name"), Str("is_null"), Null)
    IN  {Obj([and |-> Arr(<<Obj([or |-> Arr(<<AgeGt30, ageIn>>)]), password>>),
              or |-> Arr(<<roleEq, Obj([and |-> Arr(<<ageBetween>>), or |-> Num(5)])>>)]),
         Obj([or |-> Arr(<<Obj([and |-> Str("a"), or |-> Arr(<<nameNull, ageIn>>)]),
                           AgeGt30, ageBetween>>)]),
         Obj([and |-> Arr(<<Obj([and |-> Arr(<<Obj([or |-> Arr(<<ageIn>>)])>>)])>>)])}

\* groups three deep that validate against userSchema, with the operators
\* whose value is an array at the leaves
Nested ==
    {Obj([and |-> Arr(<<Obj([or |-> Arr(<<AgeBetween, Obj([and |-> Arr(<<RoleIn>>)])>>)])>>)]),
     Obj([or |-> Arr(<<Obj([and |-> Arr(<<Obj([or |-> Arr(<<RoleIn, NameContains>>)]),
                                          AgeBetween>>)]),
                       NameIsNull>>)])}

Filters ==
    Roots \cup Conditions \cup Groups1 \cup Groups2 \cup Malformed \cup Faulty \cup {Both}
    \cup Nested

\* compiled queries: what the Mongo compiler returns for filters that
\* validate, and queries with operator keys no compiler emits
Queries ==
    {toMongoQuery(f).value :
        f \in {IsActiveTrue, AgeGt30, AgeBetween, RoleIn, NameContains, Both, AnyOf}}
    \cup {Obj("age" :> Obj("$foo" :> Num(30))),
          Obj("age" :> Obj(("$gt" :> Num(30)) @@ ("$exists" :> Bool(TRUE)))),
          Obj("name" :> Obj("$options" :> Str("i"))),
          Obj("$and" :> Arr(<<Obj("role" :> Obj("$nin" :> Arr(<<Str("admin")>>)))>>))}

-----------------------------------------------------------------------------
(* The state: the repository's registry and collection, and the last call  *)
(* made by the caller (its operation, its filter, the schema of the        *)
(* library called, its outcome and the calls it made).                     *)

Init ==
    /\ builder = registerBuilder(registerBuilder(<<>>, "mongo", "MongoBuilder"),
                                 "sql", "SqlBuilder")
    /\ users = initialUsers
    /\ schema = userSchema
    /\ op = "none"
    /\ filter = Undef
    /\ ret = Return(Undef)
    /\ trace = <<>>
    /\ record = Undef
    /\ asked = ""
    /\ log = <<>>
    /\ seen = <<>>

\* new FilterLibrary(sch).validate(f)
CallValidate ==
    /\ op = "none"
    /\ \E sch \in Schemas, f \in Filters :
         /\ schema' = sch
         /\ filter' = f
         /\ ret' = validate(sch, f)
    /\ op' = "validate"
    /\ trace' = <<>>
    /\ UNCHANGED <<builder, users>>
    /\ UNCHANGED aside

\* filterLib.toMongoQuery(f)
CallToMongoQuery ==
    /\ op = "none"
    /\ \E f \in Filters :
         /\ filter' = f
         /\ ret' = toMongoQuery(f)
    /\ op' = "toMongoQuery"
    /\ trace' = <<>>
    /\ UNCHANGED <<builder, users, schema>>
    /\ UNCHANGED aside

\* filterLib.toSqlWhere(f)
CallToSqlWhere ==
    /\ op = "none"
    /\ \E f \in Filters :
         /\ filter' = f
         /\ ret' = toSqlWhere(f)
    /\ op' = "toSqlWhere"
    /\ trace' = <<>>
    /\ UNCHANGED <<builder, users, schema>>
    /\ UNCHANGED aside

\* repo.filterUsers(f) that filters the collection in place: the records
\* that do not match are removed from it
CallFilterUsersInPlace ==
    /\ op = "none"
    /\ \E f \in Filters :
         /\ filter' = f
         /\ filterUsers(f)
    /\ op' = "filterUsers"
    /\ users' = (IF ret'.kind = "return" THEN ret'.value.v ELSE users)
    /\ UNCHANGED <<builder, schema>>
    /\ UNCHANGED aside

\* repo.filterUsers(f)
CallFilterUsers ==
    /\ op = "none"
    /\ \E f \in Filters :
         /\ filter' = f
         /\ filterUsers(f)
    /\ op' = "filterUsers"
    /\ UNCHANGED <<builder, users, schema>>
    /\ UNCHANGED aside

\* repo.getSqlWhere(f)
CallGetSqlWhere ==
    /\ op = "none"
    /\ \E f \in Filters :
         /\ filter' = f
         /\ getSqlWhere(f)
    /\ op' = "getSqlWhere"
    /\ UNCHANGED <<builder, users, schema>>
    /\ UNCHANGED aside

\* this.matchesQuery(user, query), for a record of the collection
CallMatchesQuery ==
    /\ op = "none"
    /\ \E i \in 1..Len(users), query \in Queries :
         /\ record' = users[i]
         /\ filter' = query
         /\ ret' = Return(Bool(matchesQuery(users[i], query)))
    /\ op' = "matchesQuery"
    /\ trace' = <<>>
    /\ UNCHANGED <<builder, users, schema, asked, log, seen>>

\* the caller takes the outcome; the next call starts afresh
TakeOutcome ==
    /\ op # "none"
    /\ op' = "none"
    /\ filter' = Undef
    /\ ret' = Return(Undef)
    /\ trace' = <<>>
    /\ schema' = userSchema
    /\ record' = Undef
    /\ asked' = ""
    /\ UNCHANGED <<builder, users, log, seen>>

Next ==
    \/ CallValidate
    \/ CallToMongoQuery
    \/ CallToSqlWhere
    \/ CallFilterUsers
    \/ CallGetSqlWhere
    \/ CallMatchesQuery
    \/ TakeOutcome

Spec == Init /\ [][Next]_vars

-----------------------------------------------------------------------------
(* A library of its own, as the tests construct it: its registry starts    *)
(* empty, builders are registered on it and queries built by name.         *)

\* the most registerBuilder calls made on the library
MaxRegs == 2

Names == {"mongo", "sql", "custom"}

Builders == {"MongoBuilder", "SqlBuilder"}

\* the filters the library is called with
Probes == {Undef, AgeBetween, Both, Cond(Str("password"), Str("eq"), Str("a"))}

\* const lib = new FilterLibrary(userSchema)
RegistryInit ==
    /\ builder = <<>>
    /\ users = initialUsers
    /\ schema = userSchema
    /\ op = "none"
    /\ filter = Undef
    /\ ret = Return(Undef)
    /\ trace = <<>>
    /\ record = Undef
    /\ asked = ""
    /\ log = <<>>
    /\ seen = <<>>

\* lib.registerBuilder(n, b)
RegisterBuilder ==
    /\ op = "none"
    /\ Len(log) < MaxRegs
    /\ \E n \in Names, b \in Builders :
         /\ builder' = registerBuilder(builder, n, b)
         /\ log' = Append(log, <<n, b>>)
    /\ UNCHANGED <<users, schema, op, filter, ret, trace, record, asked, seen>>

\* lib.buildQuery(n, f)
CallBuildQuery ==
    /\ op = "none"
    /\ \E n \in Names, f \in Probes :
         /\ asked' = n
         /\ filter' = f
         /\ ret' = buildQuery(builder, n, f)
    /\ op' = "buildQuery"
    /\ trace' = <<>>
    /\ UNCHANGED <<builder, users, schema, record, log, seen>>

\* lib.validate(f)
ProbeValidate ==
    /\ op = "none"
    /\ \E f \in Probes :
         /\ filter' = f
         /\ ret' = validate(userSchema, f)
    /\ op' = "validate"
    /\ trace' = <<>>
    /\ UNCHANGED <<builder, users, schema>>
    /\ UNCHANGED aside

\* lib.toMongoQuery(f), lib.toSqlWhere(f)
ProbeCompile ==
    /\ op = "none"
    /\ \E f \in Probes :
         /\ filter' = f
         /\ \/ ret' = toMongoQuery(f) /\ op' = "toMongoQuery"
            \/ ret' = toSqlWhere(f) /\ op' = "toSqlWhere"
    /\ trace' = <<>>
    /\ UNCHANGED <<builder, users, schema>>
    /\ UNCHANGED aside

RegistryNext ==
    \/ RegisterBuilder
    \/ CallBuildQuery
    \/ ProbeValidate
    \/ ProbeCompile
    \/ TakeOutcome

RegistrySpec == RegistryInit /\ [][RegistryNext]_vars

-----------------------------------------------------------------------------
(* The repository and its library called again and again: what a compiler  *)
(* returned for a filter the first time is kept, with the number of times  *)
(* the filter was compiled by it.                                          *)

\* the most compilations of one filter by one compiler that are counted
MaxSeen == 2

\* the filters whose compilations are kept
Kept == {AgeBetween, Both}

\* filterLib.toMongoQuery(f) / filterLib.toSqlWhere(f), its outcome kept
CompileKept ==
    /\ op = "none"
    /\ \E f \in Kept, c \in {"toMongoQuery", "toSqlWhere"} :
         LET key == <<c, f>>
             n == IF key \in DOMAIN seen THEN seen[key].n ELSE 0
         IN  /\ n < MaxSeen
             /\ filter' = f
             /\ op' = c
             /\ ret' = (IF c = "toMongoQuery" THEN toMongoQuery(f) ELSE toSqlWhere(f))
             /\ seen' = [k \in DOMAIN seen \cup {key} |->
                            IF k # key THEN seen[k]
                            ELSE [first |-> IF n = 0 THEN ret' ELSE seen[key].first,
                                  n |-> n + 1]]
    /\ trace' = <<>>
    /\ UNCHANGED <<builder, users, schema, record, asked, log>>

\* repo.filterUsers(f), repo.getSqlWhere(f)
ProbeRepository ==
    /\ op = "none"
    /\ \E f \in Probes :
         /\ filter' = f
         /\ \/ filterUsers(f) /\ op' = "filterUsers"
            \/ getSqlWhere(f) /\ op' = "getSqlWhere"
    /\ UNCHANGED <<builder, users, schema>>
    /\ UNCHANGED aside

HistoryNext ==
    \/ CompileKept
    \/ ProbeValidate
    \/ ProbeCompile
    \/ ProbeRepository
    \/ TakeOutcome

HistorySpec == Init /\ [][HistoryNext]_vars

-----------------------------------------------------------------------------
(* What the claims are stated with *)

\* f validates against sch
Valid(sch, f) == validate(sch, f) = Return(<<>>)

isCondition(node) == node.t = "object" /\ "field" \in DOMAIN node.v

Text(s) == [text |-> s]
Param(v) == [param |-> v]

\* adjacent texts made one
RECURSIVE Merge(_)
Merge(ps) ==
    IF Len(ps) < 2 THEN ps
    ELSE IF "text" \in DOMAIN ps[1] /\ "text" \in DOMAIN ps[2]
    THEN Merge(<<Text(ps[1].text \o ps[2].text)>> \o SubSeq(ps, 3, Len(ps)))
    ELSE <<ps[1]>> \o Merge(Tail(ps))

\* the sql with its k-th, (k+1)-th, ... placeholder replaced by the k-th,
\* (k+1)-th, ... element of params
RECURSIVE Bind(_, _, _)
Bind(sql, params, k) ==
    IF sql = <<>> THEN <<>>
    ELSE IF Head(sql) = "?"
    THEN <<IF k <= Len(params) THEN Param(params[k]) ELSE Text("?")>>
         \o Bind(Tail(sql), params, k + 1)
    ELSE <<Text(Head(sql))>> \o Bind(Tail(sql), params, k)

Placeholders(sql) == Cardinality({i \in 1..Len(sql) : sql[i] = "?"})

RECURSIVE SepBy(_, _)
\* the sequences of list, sep between them
SepBy(list, sep) ==
    IF list = <<>> THEN <<>>
    ELSE IF Len(list) = 1 THEN list[1]
    ELSE list[1] \o <<sep>> \o SepBy(Tail(list), sep)

\* the WHERE clause of a condition with each value written where it belongs
InlineCondition(cond) ==
    LET f == Text(cond.v.field.v)
        o == cond.v.operator.v
        value == get(cond, "value")
        sign == [eq |-> " = ", neq |-> " <> ", gt |-> " > ", lt |-> " < ",
                 gte |-> " >= ", lte |-> " <= "]
    IN  CASE o \in DOMAIN sign -> <<f, Text(sign[o]), Param(value)>>
          [] o = "in" ->
               <<f, Text(" IN (")>>
               \o SepBy([i \in 1..Len(value.v) |-> <<Param(value.v[i])>>], Text(", "))
               \o <<Text(")")>>
          [] o = "between" ->
               <<f, Text(" BETWEEN "), Param(value.v[1]), Text(" AND "), Param(value.v[2])>>
          [] o = "contains" -> <<f, Text(" LIKE "), Param(Str("%" \o toStr(value) \o "%"))>>
          [] o = "starts_with" -> <<f, Text(" LIKE "), Param(Str(toStr(value) \o "%"))>>
          [] o = "ends_with" -> <<f, Text(" LIKE "), Param(Str("%" \o toStr(value)))>>
          [] o = "is_null" -> <<f, Text(" IS NULL")>>
          [] o = "is_not_null" -> <<f, Text(" IS NOT NULL")>>

RECURSIVE Inline(_)
\* the WHERE clause of a validated tree with each value written where it belongs
Inline(node) ==
    IF isCondition(node) THEN InlineCondition(node)
    ELSE LET side(k, sep) ==
                 IF get(node, k) = Undef THEN <<>>
                 ELSE <<SepBy([i \in 1..Len(node.v[k].v) |-> Inline(node.v[k].v[i])],
                              Text(sep))>>
         IN  <<Text("(")>> \o SepBy(side("and", " AND ") \o side("or", " OR "), Text(" AND "))
             \o <<Text(")")>>

-----------------------------------------------------------------------------
(* Claims *)

\* C1: for every filter that validates (against any schema), the SQL
\* compiler returns as many params as the sql has placeholders, and the
\* sql with its i-th placeholder replaced by the i-th param is the clause
\* with every value written where it belongs: both bounds of between in
\* order, every element of in in order, the wildcard-wrapped value of
\* contains / starts_with / ends_with, nothing for is_null / is_not_null.
C1_ParamsFollowPlaceholders ==
    (/\ truthy(filter)
     /\ \/ op = "toSqlWhere" /\ \E sch \in Schemas : Valid(sch, filter)
        \/ op = "getSqlWhere" /\ Valid(userSchema, filter))
    => /\ ret.kind = "return"
       /\ isArray(ret.value.params)
       /\ Len(ret.value.params.v) = Placeholders(ret.value.sql)
       /\ Merge(Bind(ret.value.sql, ret.value.params.v, 1)) = Merge(Inline(filter))

\* a nested group with both and and or was compiled, with four params or more
C1_Witness ==
    /\ op = "toSqlWhere"
    /\ Valid(userSchema, filter)
    /\ filter.t = "object"
    /\ {"and", "or"} \subseteq DOMAIN filter.v
    /\ \E i \in 1..Len(filter.v["and"].v) : filter.v["and"].v[i] = Both
    /\ Len(ret.value.params.v) >= 4

\* u satisfies the tree read as a boolean expression: a condition compares
\* the record's field with the value, the and of a group holds iff all its
\* children hold, its or iff at least one does, the group iff both do
RECURSIVE Satisfies(_, _)
Satisfies(u, node) ==
    IF isCondition(node)
    THEN LET x == get(u, node.v.field.v)
             o == node.v.operator.v
             value == get(node, "value")
         IN  CASE o = "eq" -> x = value
               [] o = "neq" -> x # value
               [] o = "gt" -> x.v > value.v
               [] o = "lt" -> x.v < value.v
               [] o = "gte" -> x.v >= value.v
               [] o = "lte" -> x.v <= value.v
               [] o = "in" -> \E i \in 1..Len(value.v) : value.v[i] = x
               [] o = "between" -> value.v[1].v <= x.v /\ x.v <= value.v[2].v
               [] o = "is_null" -> x = Null
    ELSE /\ "and" \in DOMAIN node.v =>
               \A i \in 1..Len(node.v["and"].v) : Satisfies(u, node.v["and"].v[i])
         /\ "or" \in DOMAIN node.v =>
               \E i \in 1..Len(node.v["or"].v) : Satisfies(u, node.v["or"].v[i])

\* the records of us that satisfy the tree, in the order of us
Selected(us, node) == SelectSeq(us, LAMBDA u : Satisfies(u, node))

Comparisons == {"eq", "neq", "gt", "lt", "gte", "lte", "in", "between"}

\* a tree of comparisons in which every group sets exactly one of and / or
RECURSIVE OneKeyTree(_)
OneKeyTree(node) ==
    IF isCondition(node)
    THEN get(node, "operator").t = "string" /\ node.v.operator.v \in Comparisons
    ELSE /\ node.t = "object"
         /\ DOMAIN node.v \in {{"and"}, {"or"}}
         /\ \A k \in DOMAIN node.v :
               /\ isArray(node.v[k])
               /\ \A i \in 1..Len(node.v[k].v) : OneKeyTree(node.v[k].v[i])

\* C2: for a validated tree of comparisons in which every group sets exactly
\* one of and / or, filterUsers returns exactly the records that satisfy
\* the tree read as a boolean expression.
C2_FilterUsersIsTheBooleanReading ==
    (op = "filterUsers" /\ truthy(filter) /\ OneKeyTree(filter)
     /\ Valid(userSchema, filter))
    => ret = Return(Arr(Selected(users, filter)))

\* age > 30 and (age <= 28 or role <> admin) returned Charlie alone
C2_Witness ==
    /\ op = "filterUsers"
    /\ filter = Obj([and |-> Arr(<<AgeGt30, AnyOf>>)])
    /\ ret = Return(Arr(<<initialUsers[3]>>))

\* a group that sets both and and or, over one-key trees of comparisons
BothKeysTree(node) ==
    /\ node.t = "object"
    /\ DOMAIN node.v = {"and", "or"}
    /\ \A k \in DOMAIN node.v :
          /\ isArray(node.v[k])
          /\ \A i \in 1..Len(node.v[k].v) : OneKeyTree(node.v[k].v[i])

\* C3: for a validated group that sets both and and or (each with a child
\* or more), the Mongo compiler emits one object with both $and and $or, and
\* filterUsers returns exactly the records that satisfy every child of and
\* and at least one child of or.
C3_BothKeysAreConjoined ==
    (/\ BothKeysTree(filter)
     /\ filter.v["and"].v # <<>>
     /\ filter.v["or"].v # <<>>
     /\ Valid(userSchema, filter))
    => /\ op = "toMongoQuery" =>
             ret.kind = "return" /\ DOMAIN ret.value.v = {"$and", "$or"}
       /\ op = "filterUsers" => ret = Return(Arr(Selected(users, filter)))

\* C4: validate never raises: for an absent filter and for every object
\* (a condition, a group, a malformed tree) it returns a list of
\* {path, message} errors.
C4_ValidateNeverThrows ==
    (op = "validate" /\ (~truthy(filter) \/ filter.t = "object"))
    => /\ ret.kind = "return"
       /\ \A i \in 1..Len(ret.value) : DOMAIN ret.value[i] = {"path", "message"}

\* C5: for a validated condition f is_null the Mongo compiler emits
\* {f: null} and filterUsers returns exactly the records whose f is null.
C5_IsNullSelectsTheNullRecords ==
    (isCondition(filter) /\ get(filter, "operator") = Str("is_null")
     /\ Valid(userSchema, filter))
    => /\ op = "toMongoQuery" => ret = Return(Obj(filter.v.field.v :> Null))
       /\ op = "filterUsers" => ret = Return(Arr(Selected(users, filter)))

\* C6: an absent filter and a group that sets neither and nor or mean no
\* filtering: validate returns the empty list, the Mongo compiler the
\* empty query object, filterUsers every record of the collection (all 3).
C6_NoFilterSelectsAll ==
    filter \in {Undef, Null, EmptyObj}
    => /\ op = "validate" => ret = Return(<<>>)
       /\ op = "toMongoQuery" => ret = Return(EmptyObj)
       /\ op = "filterUsers" => ret = Return(Arr(users)) /\ Len(ret.value.v) = 3

\* filterUsers returned all the records for the empty group
C6_Witness ==
    /\ op = "filterUsers"
    /\ filter = EmptyObj
    /\ ret.kind = "return"
    /\ Len(ret.value.v) = 3

\* the descriptors of sch named name
Descriptors(sch, name) == {sch[i] : i \in {j \in 1..Len(sch) : sch[j].name = name}}

\* a condition whose field and operator are strings is the whole filter
RootCondition == isCondition(filter) /\ filter.v.field.t = "string"

\* C7: a condition on a field that is not in the schema gets exactly one
\* error, "is not allowed for filtering", a condition on a field that is
\* not filterable exactly one error, "is not filterable", whatever operator
\* and value it carries.
C7_FieldErrorsStandAlone ==
    (op = "validate" /\ RootCondition)
    => LET f == filter.v.field.v
       IN  /\ Descriptors(schema, f) = {} =>
                ret = Return(<<Err("<root>",
                                   "Field \"" \o f \o "\" is not allowed for filtering")>>)
           /\ (\E d \in Descriptors(schema, f) : ~d.filterable) =>
                ret = Return(<<Err("<root>", "Field \"" \o f \o "\" is not filterable")>>)

\* a condition on a field that is not filterable was validated with an
\* operator that is none and no value
C7_Witness ==
    /\ op = "validate"
    /\ schema = userSchema
    /\ filter = Cond(Str("createdAt"), Str("unknown"), Undef)
    /\ Len(ret.value) = 1

\* sch with operator o added to the operators allowed for field name
Allowing(sch, name, o) ==
    [i \in 1..Len(sch) |->
        IF sch[i].name # name THEN sch[i]
        ELSE [k \in DOMAIN sch[i] \cup {"allowedOperators"} |->
                 IF k = "allowedOperators" THEN Append(allowedOps(sch[i]), o)
                 ELSE sch[i][k]]]

\* the operators allowed for a descriptor: allowedOperators if declared,
\* else the default set of its type
AllowedSet(d) ==
    LET ops == IF "allowedOperators" \in DOMAIN d THEN d.allowedOperators
               ELSE defaultOperators[d.type]
    IN  {ops[i] : i \in 1..Len(ops)}

\* C8: a condition on a filterable field with an operator that is not
\* allowed for it gets the error "Operator ... is not allowed for field
\* ..." followed by exactly the errors it gets when the operator is allowed
\* (none for age contains 30).
C8_OperatorErrorThenValueErrors ==
    (op = "validate" /\ RootCondition /\ get(filter, "operator").t = "string")
    => LET f == filter.v.field.v
           o == filter.v.operator.v
       IN  \A d \in Descriptors(schema, f) :
              (d.filterable /\ o \notin AllowedSet(d))
              => /\ ret.kind = "return"
                 /\ ret.value
                      = <<Err("<root>", "Operator \"" \o o
                                        \o "\" is not allowed for field \"" \o f \o "\"")>>
                        \o validate(Allowing(schema, f, o), filter).value
                 /\ filter = Cond(Str("age"), Str("contains"), Num(30))
                      => Len(ret.value) = 1

\* a disallowed operator was validated with a value of the wrong shape:
\* two errors
C8_Witness ==
    /\ op = "validate"
    /\ schema = userSchema
    /\ filter = Cond(Str("isActive"), Str("between"), Num(30))
    /\ Len(ret.value) = 2

\* the value has the declared type of the descriptor
TypeMatches(value, d) ==
    CASE d.type = "string" -> value.t = "string"
      [] d.type = "number" -> value.t = "number"
      [] d.type = "boolean" -> value.t = "boolean"
      [] d.type = "date" -> value.t = "string" /\ value.v \in IsoDates
      [] d.type = "uuid" -> value.t = "string" /\ value.v \in UuidShaped
      [] d.type = "enum" ->
           /\ value.t = "string"
           /\ "enumValues" \in DOMAIN d
                => \E i \in 1..Len(d.enumValues) : d.enumValues[i] = value.v

\* C9: a condition on a filterable field with an allowed operator other
\* than is_null, is_not_null, between and in gets exactly one error "Field
\* requires a value" at its path when the value is absent, exactly one
\* error at "<path>.value" when the value has not the declared type of the
\* field ("must be a number" for a number field), and none when it has.
C9_ScalarValueIsTypeChecked ==
    (op = "validate" /\ RootCondition /\ get(filter, "operator").t = "string")
    => LET f == filter.v.field.v
           o == filter.v.operator.v
           value == get(filter, "value")
       IN  \A d \in Descriptors(schema, f) :
              (/\ d.filterable
               /\ o \in AllowedSet(d)
               /\ o \notin {"is_null", "is_not_null", "between", "in"})
              => /\ ret.kind = "return"
                 /\ value = Undef
                      => ret.value = <<Err("<root>", "Field requires a value")>>
                 /\ (value # Undef /\ ~TypeMatches(value, d))
                      => /\ Len(ret.value) = 1
                         /\ ret.value[1].path = "<root>.value"
                         /\ d.type = "number" => ret.value[1].message = "must be a number"
                 /\ (value # Undef /\ TypeMatches(value, d)) => ret.value = <<>>

\* C10: filterUsers and getSqlWhere validate first; when the list of errors
\* is not empty the call raises "Validation failed..." and neither builds
\* nor evaluates; a builder is invoked only after validate returned the
\* empty list, and records are evaluated only after the query was built.
C10_ValidateThenBuildThenEvaluate ==
    op \in {"filterUsers", "getSqlWhere"}
    => LET errors == validate(userSchema, filter)
       IN  /\ Len(trace) >= 1 /\ trace[1] = "validate"
           /\ \A i \in 2..Len(trace) : trace[i] # "validate"
           /\ (errors.kind = "return" /\ errors.value # <<>>)
                => /\ ret.kind = "throw"
                   /\ ret.message = "Validation failed: "
                   /\ ret.json = errors.value
                   /\ trace = <<"validate">>
           /\ \A i \in 1..Len(trace) :
                 /\ trace[i] = "buildQuery" => i = 2 /\ errors = Return(<<>>)
                 /\ trace[i] = "matchesQuery" => i > 2 /\ trace[2] = "buildQuery"
           /\ errors = Return(<<>>) => Len(trace) >= 2 /\ trace[2] = "buildQuery"
           /\ op = "getSqlWhere" => \A i \in 1..Len(trace) : trace[i] # "matchesQuery"

\* a call was refused for the errors of its filter
C10_Witness ==
    /\ op = "filterUsers"
    /\ filter = Cond(Str("password"), Str("eq"), Str("a"))
    /\ ret.kind = "throw"
    /\ trace = <<"validate">>

\* the operator keys the evaluator knows
Recognized == {"$ne", "$gt", "$lt", "$gte", "$lte", "$in", "$regex", "$options"}

\* the evaluator, matching u against query, meets an operator key that is
\* none of Recognized: in an operator object all of whose other operators
\* hold for u, be it the whole query or the only element of its $and / $or
RECURSIVE Meets(_, _)
Meets(u, query) ==
    IF "$and" \in DOMAIN query.v
    THEN Len(query.v["$and"].v) = 1 /\ Meets(u, query.v["$and"].v[1])
    ELSE IF "$or" \in DOMAIN query.v
    THEN Len(query.v["$or"].v) = 1 /\ Meets(u, query.v["$or"].v[1])
    ELSE /\ Cardinality(DOMAIN query.v) = 1
         /\ \E field \in DOMAIN query.v :
               LET condition == query.v[field]
               IN  /\ condition.t = "object"
                   /\ DOMAIN condition.v \ Recognized # {}
                   /\ \A o \in DOMAIN condition.v \cap Recognized :
                         o = "$options" \/ opHolds(condition, o, get(u, field))

\* C11: when the evaluator meets, in an operator object of a query, an
\* operator key that is none of $ne, $gt, $lt, $gte, $lte, $in, $regex,
\* $options, the call ends with an error, not with a boolean.
C11_UnknownOperatorKeyIsFatal ==
    (op = "matchesQuery" /\ Meets(record, filter)) => ret.kind = "throw"

\* the registerBuilder calls of the log made under n
Registrations(n) == {i \in 1..Len(log) : log[i][1] = n}

\* C12: after any sequence of registerBuilder calls, buildQuery(name, filter)
\* raises 'Query builder "<name>" is not registered' iff no builder was
\* registered under name, and otherwise ends as build(filter) of the builder
\* registered under name (the last one) does; on a library without
\* registrations it raises for every name.
C12_BuildQueryFollowsTheRegistrations ==
    op = "buildQuery"
    => LET notRegistered ==
               Throw("Error", "Query builder \"" \o asked \o "\" is not registered")
       IN  /\ ret = notRegistered <=> Registrations(asked) = {}
           /\ Registrations(asked) # {} =>
                 \E i \in Registrations(asked) :
                    /\ \A j \in Registrations(asked) : j <= i
                    /\ ret = (IF log[i][2] = "MongoBuilder" THEN toMongoQuery(filter)
                               ELSE toSqlWhere(filter))
           /\ log = <<>> => ret.kind = "throw"

\* a query was built by the builder registered under "custom", "sql" was
\* asked for and never registered
C12_Witness ==
    /\ op = "buildQuery"
    /\ log = <<<<"mongo", "MongoBuilder">>, <<"custom", "SqlBuilder">>>>
    /\ asked = "custom"
    /\ filter = Both
    /\ ret.kind = "return"
    /\ "sql" \notin DOMAIN builder

\* C13: the registry is write-once: no step of the library changes what a
\* name that is mapped maps to.
C13_RegistryIsWriteOnce ==
    [][\A n \in DOMAIN builder : n \in DOMAIN builder' /\ builder'[n] = builder[n]]_vars

\* the compiled children of a group's and / or, in the order of the input
ChildrenOf(node, k, compile(_)) ==
    [i \in 1..Len(node.v[k].v) |-> compile(node.v[k].v[i]).value]

C15_InputsAreLeftAlone ==
    /\ users = initialUsers
    /\ schema \in Schemas
    /\ op \in {"validate", "toMongoQuery", "toSqlWhere", "filterUsers", "getSqlWhere"}
         => filter \in Filters
    /\ op = "matchesQuery" =>
          /\ filter \in Queries
          /\ \E i \in 1..Len(initialUsers) : record = initialUsers[i]
    /\ op = "filterUsers" /\ ret.kind = "return" =>
          \A i \in 1..Len(ret.value.v) :
             \E j \in 1..Len(initialUsers) : ret.value.v[i] = initialUsers[j]

\* filterUsers returned two records of three for an in condition, and the
\* collection still holds the three
C15_Witness ==
    /\ op = "filterUsers"
    /\ filter = Cond(Str("role"), Str("in"), Arr(<<Str("admin"), Str("manager")>>))
    /\ ret.kind = "return"
    /\ Len(ret.value.v) = 2
    /\ Len(users) = 3

\* the paths that locate a node or a value in the tree under node, node
\* being at path p: p itself, p.value and p.value[i] for the value of a
\* condition and the elements of its array, p.and[i] and p.or[i] and what
\* lies under them for the children of a group (i from 0)
RECURSIVE PathsOf(_, _)
PathsOf(node, p) ==
    IF node.t # "object" THEN {p}
    ELSE IF isCondition(node)
    THEN {p}
         \cup (IF "value" \in DOMAIN node.v THEN {p \o ".value"} ELSE {})
         \cup (IF isArray(get(node, "value"))
               THEN {p \o ".value[" \o natStr(i - 1) \o "]" : i \in 1..Len(node.v.value.v)}
               ELSE {})
    ELSE {p}
         \cup UNION {IF isArray(node.v[k])
                     THEN UNION {PathsOf(node.v[k].v[i],
                                         p \o "." \o k \o "[" \o natStr(i - 1) \o "]") :
                                    i \in 1..Len(node.v[k].v)}
                     ELSE {} : k \in DOMAIN node.v \cap {"and", "or"}}

RECURSIVE Concat(_)
Concat(lists) == IF lists = <<>> THEN <<>> ELSE Head(lists) \o Concat(Tail(lists))

\* the errors of every node of the tree, those of the and children before
\* those of the or children, each in index order
RECURSIVE Accumulated(_, _, _)
Accumulated(sch, node, p) ==
    IF isCondition(node) THEN validateCondition(sch, node, p)
    ELSE LET part(k) ==
                 IF k \notin DOMAIN node.v THEN <<>>
                 ELSE IF ~isArray(node.v[k])
                 THEN <<Err(p, "\"" \o k \o "\" must be an array")>>
                 ELSE Concat([i \in 1..Len(node.v[k].v) |->
                                 Accumulated(sch, node.v[k].v[i],
                                             p \o "." \o k \o "[" \o natStr(i - 1) \o "]")])
         IN  part("and") \o part("or")

\* C16: every error validate returns has a path that leads from "<root>"
\* to a node or a value of the input (p.and[i], p.or[i], p.value,
\* p.value[i]), and the list is the errors of all the nodes, those of and
\* children before those of or children, in index order.
C16_PathsLocateTheErrors ==
    (op = "validate" /\ filter.t = "object" /\ ret.kind = "return")
    => /\ \A i \in 1..Len(ret.value) : ret.value[i].path \in PathsOf(filter, "<root>")
       /\ ret.value = Accumulated(schema, filter, "<root>")

\* five errors of a tree three levels deep, the second at the element of an
\* in array
C16_Witness ==
    /\ op = "validate"
    /\ schema = userSchema
    /\ ret.kind = "return"
    /\ Len(ret.value) = 5
    /\ ret.value[1].path = "<root>.and[0].or[1].value[1]"
    /\ ret.value[5].path = "<root>.or[1]"

\* "?, ?, ..., ?" with n placeholders
RECURSIVE Marks(_)
Marks(n) == IF n = 0 THEN "" ELSE IF n = 1 THEN "?" ELSE "?, " \o Marks(n - 1)

\* how many parentheses are open after the first k pieces of sql
Open(sql, k) ==
    Cardinality({i \in 1..k : sql[i] \in {"(", " IN ("}})
    - Cardinality({i \in 1..k : sql[i] = ")"})

\* C17: for a validated condition the SQL compiler returns a fragment
\* without parentheses around it: between gives "<field> BETWEEN ? AND ?"
\* with params [value[0], value[1]], in gives "<field> IN (?, ?, ...)" with
\* one placeholder per element and the elements as params (none for the
\* empty array); the fragment of a group is wrapped in one pair of
\* parentheses.
C17_SqlFragmentsHaveTheirShape ==
    (/\ filter.t = "object"
     /\ \/ op = "toSqlWhere" /\ \E sch \in Schemas : Valid(sch, filter)
        \/ op = "getSqlWhere" /\ Valid(userSchema, filter))
    => LET sql == ret.value.sql
           params == ret.value.params
       IN  /\ ret.kind = "return"
           /\ isCondition(filter) =>
                 LET f == filter.v.field.v
                     o == filter.v.operator.v
                     value == get(filter, "value")
                 IN  /\ Head(sql) = f
                     /\ sql[Len(sql)] # ")" \/ o = "in"
                     /\ o = "between" =>
                           /\ sqlText(sql) = f \o " BETWEEN ? AND ?"
                           /\ params = Arr(<<value.v[1], value.v[2]>>)
                     /\ o = "in" =>
                           /\ sqlText(sql) = f \o " IN (" \o Marks(Len(value.v)) \o ")"
                           /\ Placeholders(sql) = Len(value.v)
                           /\ params = value
           /\ ~isCondition(filter) =>
                 /\ Head(sql) = "("
                 /\ sql[Len(sql)] = ")"
                 /\ \A k \in 1..(Len(sql) - 1) : Open(sql, k) > 0
                 /\ Open(sql, Len(sql)) = 0

\* an in over three elements was compiled
C17_Witness ==
    /\ op = "toSqlWhere"
    /\ filter = Cond(Str("age"), Str("in"), Arr(<<Num(1), Num(2), Num(3)>>))
    /\ ret.kind = "return"
    /\ sqlText(ret.value.sql) = "age IN (?, ?, ?)"
    /\ ret.value.params = Arr(<<Num(1), Num(2), Num(3)>>)

\* the group that has the branch k of node alone
Branch(node, k) == Obj(k :> node.v[k])

\* C18: when the and (the or) of a group is there and no array, validate
\* reports one error, '"and" must be an array' ('"or" must be an array'),
\* at the path of the group, and nothing of that branch; the other branch
\* gets in full the errors it gets alone (when validating it alone returns
\* a list), and first, then or.
C18_NonArrayBranchIsOneError ==
    (/\ op = "validate"
     /\ filter.t = "object"
     /\ ~isCondition(filter)
     /\ \E k \in DOMAIN filter.v \cap {"and", "or"} : ~isArray(filter.v[k])
     /\ \A k \in DOMAIN filter.v \cap {"and", "or"} :
           isArray(filter.v[k]) => validate(schema, Branch(filter, k)).kind = "return")
    => LET part(k) ==
               IF k \notin DOMAIN filter.v THEN <<>>
               ELSE IF ~isArray(filter.v[k])
               THEN <<Err("<root>", "\"" \o k \o "\" must be an array")>>
               ELSE validate(schema, Branch(filter, k)).value
       IN  ret = Return(part("and") \o part("or"))

\* the and of a group was a number, its or held a condition on a field that
\* is not in the schema: two errors
C18_Witness ==
    /\ op = "validate"
    /\ schema = userSchema
    /\ filter = Obj([and |-> Num(5),
                     or |-> Arr(<<Cond(Str("password"), Str("eq"), Str("a"))>>)])
    /\ ret = Return(<<Err("<root>", "\"and\" must be an array"),
                      Err("<root>.or[0]", "Field \"password\" is not allowed for filtering")>>)

\* the errors of the elements of an array value, each checked on its own
\* against the type of the descriptor, at "<root>.value[i]"
ElementErrors(value, d) ==
    Concat([i \in 1..Len(value.v) |->
               checkType(value.v[i], d.type, "<root>.value[" \o natStr(i - 1) \o "]", d)])

\* C19: for a condition on a filterable field with an allowed operator:
\* between with a value that is no array of 2 elements gets a single error
\* at the condition's path, else the errors of its 2 elements; in with a
\* value that is no array gets a single error at the condition's path, else
\* the errors of its elements, however many; is_null / is_not_null with a
\* value, null included, gets the error "does not take a value", and none
\* without.
C19_ArrayAndNullOperatorsValueRules ==
    (op = "validate" /\ RootCondition /\ get(filter, "operator").t = "string")
    => LET f == filter.v.field.v
           o == filter.v.operator.v
           value == get(filter, "value")
           single == Len(ret.value) = 1 /\ ret.value[1].path = "<root>"
       IN  \A d \in Descriptors(schema, f) :
              (d.filterable /\ o \in AllowedSet(d))
              => /\ ret.kind = "return"
                 /\ o = "between" =>
                       IF ~isArray(value) \/ Len(value.v) # 2 THEN single
                       ELSE ret.value = ElementErrors(value, d) /\ Len(ret.value) <= 2
                 /\ o = "in" =>
                       IF ~isArray(value) THEN single
                       ELSE ret.value = ElementErrors(value, d)
                 /\ o \in {"is_null", "is_not_null"} =>
                       IF "value" \in DOMAIN filter.v
                       THEN ret.value
                              = <<Err("<root>", "Operator \"" \o o \o "\" does not take a value")>>
                       ELSE ret.value = <<>>

\* a between whose second bound is a string got the one error of that
\* element
C19_Witness ==
    /\ op = "validate"
    /\ schema = userSchema
    /\ filter = Cond(Str("age"), Str("between"), Arr(<<Num(20), Str("a")>>))
    /\ ret = Return(<<Err("<root>.value[1]", "must be a number")>>)

\* The tokens of an SQL text given by its pieces: "(", ")", "AND", "OR",
\* and "P" for a predicate (a field followed by its comparison, the AND of
\* BETWEEN and the parentheses of IN being part of it)
RECURSIVE Tokens(_, _)
Tokens(sql, i) ==
    IF i > Len(sql) THEN <<>>
    ELSE IF sql[i] \in {"(", ")"} THEN <<sql[i]>> \o Tokens(sql, i + 1)
    ELSE IF sql[i] = " AND " THEN <<"AND">> \o Tokens(sql, i + 1)
    ELSE IF sql[i] = " OR " THEN <<"OR">> \o Tokens(sql, i + 1)
    ELSE LET next == IF i < Len(sql) THEN sql[i + 1] ELSE ""
             close == CHOOSE j \in (i + 1)..Len(sql) : 
                         sql[j] = ")" /\ \A k \in (i + 1)..(j - 1) : sql[k] # ")"
         IN  <<"P">>
             \o Tokens(sql, CASE next = " BETWEEN " -> i + 5
                               [] next = " IN (" -> close + 1
                               [] next \in {" IS NULL", " IS NOT NULL"} -> i + 2
                               [] OTHER -> i + 3)

\* The value of a token sequence read as a boolean expression, AND binding
\* tighter than OR, the k-th predicate having the value a[k].  A parsing
\* step gives [ok, val, pos, leaf]: whether it could read, the value read,
\* the next token and the next predicate.
Failed == [ok |-> FALSE, val |-> FALSE, pos |-> 0, leaf |-> 0]

RECURSIVE ParseExpr(_, _, _, _)
RECURSIVE ParseTerm(_, _, _, _)
RECURSIVE ParseFactor(_, _, _, _)
RECURSIVE ExprRest(_, _, _)
RECURSIVE TermRest(_, _, _)

ParseFactor(ts, a, pos, leaf) ==
    IF pos > Len(ts) THEN Failed
    ELSE IF ts[pos] = "P"
    THEN [ok |-> TRUE, val |-> a[leaf], pos |-> pos + 1, leaf |-> leaf + 1]
    ELSE IF ts[pos] = "("
    THEN LET e == ParseExpr(ts, a, pos + 1, leaf)
         IN  IF e.ok /\ e.pos <= Len(ts) /\ ts[e.pos] = ")"
             THEN [e EXCEPT !.pos = e.pos + 1]
             ELSE Failed
    ELSE Failed

TermRest(ts, a, left) ==
    IF left.pos <= Len(ts) /\ ts[left.pos] = "AND"
    THEN LET right == ParseFactor(ts, a, left.pos + 1, left.leaf)
         IN  IF ~right.ok THEN Failed
             ELSE TermRest(ts, a, [right EXCEPT !.val = left.val /\ right.val])
    ELSE left

ParseTerm(ts, a, pos, leaf) ==
    LET first == ParseFactor(ts, a, pos, leaf)
    IN  IF ~first.ok THEN Failed ELSE TermRest(ts, a, first)

ExprRest(ts, a, left) ==
    IF left.pos <= Len(ts) /\ ts[left.pos] = "OR"
    THEN LET right == ParseTerm(ts, a, left.pos + 1, left.leaf)
         IN  IF ~right.ok THEN Failed
             ELSE ExprRest(ts, a, [right EXCEPT !.val = left.val \/ right.val])
    ELSE left

ParseExpr(ts, a, pos, leaf) ==
    LET first == ParseTerm(ts, a, pos, leaf)
    IN  IF ~first.ok THEN Failed ELSE ExprRest(ts, a, first)

\* the SQL text is a well-formed expression
WellFormed(sql, a) ==
    LET ts == Tokens(sql, 1)
        e == ParseExpr(ts, a, 1, 1)
    IN  e.ok /\ e.pos = Len(ts) + 1

SqlMeaning(sql, a) == ParseExpr(Tokens(sql, 1), a, 1, 1).val

\* The value of a Mongo query, the k-th field query (in the order of the
\* document) having the value a[k]: $and holds iff all its elements hold,
\* $or iff at least one does, an object with both iff both do, the empty
\* object holds.  A step gives [val, leaf].
RECURSIVE MongoStep(_, _, _)
RECURSIVE MongoEach(_, _, _, _, _)

\* the elements of list from the i-th on, acc being [val, leaf] so far
MongoEach(list, i, a, acc, all) ==
    IF i > Len(list) THEN acc
    ELSE LET r == MongoStep(list[i], a, acc.leaf)
         IN  MongoEach(list, i + 1, a,
                       [val |-> IF all THEN acc.val /\ r.val ELSE acc.val \/ r.val,
                        leaf |-> r.leaf],
                       all)

MongoStep(query, a, leaf) ==
    IF DOMAIN query.v = {} THEN [val |-> TRUE, leaf |-> leaf]
    ELSE IF DOMAIN query.v \subseteq {"$and", "$or"}
    THEN LET rAnd == IF "$and" \in DOMAIN query.v
                     THEN MongoEach(query.v["$and"].v, 1, a,
                                    [val |-> TRUE, leaf |-> leaf], TRUE)
                     ELSE [val |-> TRUE, leaf |-> leaf]
             rOr == IF "$or" \in DOMAIN query.v
                    THEN MongoEach(query.v["$or"].v, 1, a,
                                   [val |-> FALSE, leaf |-> rAnd.leaf], FALSE)
                    ELSE [val |-> TRUE, leaf |-> rAnd.leaf]
         IN  [val |-> rAnd.val /\ rOr.val, leaf |-> rOr.leaf]
    ELSE [val |-> a[leaf], leaf |-> leaf + 1]

MongoMeaning(query, a) == MongoStep(query, a, 1).val

\* the number of conditions of a tree
RECURSIVE Leaves(_)
Leaves(node) ==
    IF isCondition(node) THEN 1
    ELSE LET count(k) ==
                 IF k \notin DOMAIN node.v THEN 0
                 ELSE LET n == Len(node.v[k].v)
                          c == [i \in 1..n |-> Leaves(node.v[k].v[i])]
                          sum[i \in 0..n] == IF i = 0 THEN 0 ELSE sum[i - 1] + c[i]
                      IN  sum[n]
         IN  count("and") + count("or")

\* C20: for every validated tree, the SQL the SQL compiler emits is a
\* well-formed expression and, read with AND binding tighter than OR,
\* has for every valuation of the conditions the value of the Mongo query
\* emitted for the same tree.
C20_CompilersAgree ==
    (op = "toSqlWhere" /\ filter.t = "object" /\ Valid(userSchema, filter))
    => \A a \in [1..Leaves(filter) -> BOOLEAN] :
          /\ WellFormed(ret.value.sql, a)
          /\ SqlMeaning(ret.value.sql, a) = MongoMeaning(toMongoQuery(filter).value, a)

-----------------------------------------------------------------------------
\* some schema of the model accepts the filter: validate returns the empty list
Validated(f) == \E sch \in Schemas : Valid(sch, f)

\* the depth of a tree: 0 for what is no group, 1 + that of its deepest child
RECURSIVE DepthOf(_)
DepthOf(node) ==
    IF ~isObjectLike(node) \/ isArray(node) \/ hasKey(node, "field") THEN 0
    ELSE LET under(k) ==
                 IF k \in DOMAIN node.v /\ isArray(node.v[k])
                 THEN {DepthOf(node.v[k].v[i]) : i \in 1..Len(node.v[k].v)}
                 ELSE {}
             all == under("and") \cup under("or") \cup {0}
         IN  1 + CHOOSE d \in all : \A e \in all : e <= d

\* the operators of the conditions of a tree
RECURSIVE OperatorsOf(_)
OperatorsOf(node) ==
    IF ~isObjectLike(node) \/ isArray(node) THEN {}
    ELSE IF hasKey(node, "field") THEN {get(node, "operator")}
    ELSE LET under(k) ==
                 IF k \in DOMAIN node.v /\ isArray(node.v[k])
                 THEN UNION {OperatorsOf(node.v[k].v[i]) : i \in 1..Len(node.v[k].v)}
                 ELSE {}
         IN  under("and") \cup under("or")

\* C21: a filter for which validate returns the empty list, under a schema
\* whose allowed operators are among the 13 declared ones, makes neither
\* compiler throw: a compiler called on it returns, the other one would
\* return too, and the repository's calls, which validate and then build,
\* return as well.
C21_ValidatedFiltersCompile ==
    /\ (op \in {"toMongoQuery", "toSqlWhere"} /\ Validated(filter))
       => /\ ret.kind = "return"
          /\ toMongoQuery(filter).kind = "return"
          /\ toSqlWhere(filter).kind = "return"
    /\ (op \in {"filterUsers", "getSqlWhere"} /\ Valid(userSchema, filter))
       => ret.kind = "return"

\* the SQL compiler has returned for a validated tree three groups deep
\* with between and in conditions at its leaves
C21_Witness ==
    /\ op = "toSqlWhere"
    /\ Valid(userSchema, filter)
    /\ DepthOf(filter) = 3
    /\ {Str("between"), Str("in")} \subseteq OperatorsOf(filter)
    /\ ret.kind = "return"
    /\ Len(ret.value.params.v) = 4
====
